---- MODULE Spec2Model ----
(***************************************************************************)
(* The Charge Amps Homey app: one device instance of the LUNA, HALO or     *)
(* AURA driver, the vendor cloud it talks to, and the host capabilities it *)
(* publishes.  A handler runs atomically from one network await to the     *)
(* next; every network call is an action of its own (the reply), drawn     *)
(* with its outcome and payload shape from small sets.                     *)
(***************************************************************************)
EXTENDS Integers, Sequences, FiniteSets, TLC

\* Largest value of the vendor's per-session counter totalConsumptionKwh.
MaxKwh == 1
\* The published meter is kept within -MaxMeter .. MaxMeter by the guards.
MaxMeter == 3
\* Failed network calls and rejected publishes in one run.
MaxFaults == 1
\* Lock commands whose connector-settings write has not returned yet.
MaxInFlight == 2

Ports == {1, 2}
\* Slot 0 of meter/measure is the aggregate meter_both/measure_both (AURA).
Slots == {0, 1, 2}
Variants == {"luna", "halo", "aura"}
\* connectorStatuses[i].status as the vendor reports it
RawStatuses == {"Available", "Connected", "Charging", "SuspendedEV", "Finishing"}
\* Shape of connectorStatuses[i].measurements in a status response.
Measurements == {"missing", "empty", "some"}
\* Seconds one getCAdata run took (Date.now() difference in getCAdataLoop).
Elapsed == {0, 1, 2, 30, 69, 200}
\* The settings loginCA is called with.
CredentialNames == {"email", "password", "APIkey"}
\* The token pairs the vendor issues.
Tokens == {"tokenA", "tokenB"}

VARIABLES
  variant,        \* which driver class the device is
  portAccess,     \* this.portAccess (AURA setting; "port1" for LUNA/HALO)
  dev,            \* the device object: its fields and its capability values
  vMode,          \* vendor: connector settings mode of each port
  pollPc,         \* where the getCAdataLoop chain is
  pollTimer,      \* delay (s) of the armed getCAdataLoop timer, 0 if none
  hourPc,         \* where the renewTokenLoop / getHourlyData chain is
  cmd,            \* the inbound command in progress and its requests
  statusInFlight, \* number of GET /status requests not yet answered
  faults,         \* failed network calls and rejected publishes so far
  obs,            \* what the last step did (read by the properties only)
  credentials,    \* which of the settings email, password, APIkey are filled in
  chargeAmpsToken,        \* this.chargeAmpsToken
  chargeAmpsRefreshToken, \* this.chargeAmpsRefreshToken
  initPc,         \* where onInit is
  lastPoll,       \* history: the raw statuses and the events of the last two
                  \* answered status polls (recorded by StatusResponseRecorded)
  statusRFID,      \* this.statusRFID / this.aura.portN.RFID
  statusCableLock, \* this.statusCableLock / this.aura.portN.cableLock
  lockWrites,      \* the lock commands waiting for their settings write, oldest first
  vLocks           \* vendor: rfidLock and cableLock of each connector's settings

\* The session: what loginCA and renewToken work on.
session == <<credentials, chargeAmpsToken, chargeAmpsRefreshToken>>

\* The lock settings: the device's copies, the writes in flight, the vendor's.
locks == <<statusRFID, statusCableLock, lockWrites, vLocks>>

vars == <<variant, portAccess, dev, vMode, pollPc, pollTimer,
          hourPc, cmd, statusInFlight, faults, obs, session, initPc, lastPoll, locks>>

----------------------------------------------------------------------------
(* JavaScript values *)

\* null is <<>>, the number n is <<n>>.
Null == <<>>
Some(n) == <<n>>
\* ToNumber as applied by - and +=: null counts as 0.
Num(x) == IF x = Null THEN 0 ELSE x[1]

\* this.portAccess === 'both' || this.portAccess === 'portN'
Access(p) == portAccess = "both" \/ portAccess = (IF p = 1 THEN "port1" ELSE "port2")

\* The ports a variant has: one connector on LUNA and HALO, two on AURA.
PortsOf(v) == IF v = "aura" THEN Ports ELSE {1}

----------------------------------------------------------------------------
(* Handler bodies as straight-line scripts.  A script is a sequence of     *)
(* blocks; a protected block is the body of a try whose catch only logs,   *)
(* an unprotected block lets a rejection escape to the caller.             *)

Set(f, p, v) == [op |-> "set", f |-> f, p |-> p, v |-> v, g |-> 0]
\* await setCapabilityValue(f, v); pubs with the same g share one Promise.all
Pub(f, p, v, g) == [op |-> "pub", f |-> f, p |-> p, v |-> v, g |-> g]
\* setCapabilityValue(f, v) whose promise nobody awaits
PubNoAwait(f, p, v) == [op |-> "pubna", f |-> f, p |-> p, v |-> v, g |-> 0]
\* meter_both / measure_both: the sum of what the two capabilities hold now
PubSum(f, g) == [op |-> "pubsum", f |-> f, p |-> 0, v |-> Null, g |-> g]
\* getDeviceTriggerCard(name).trigger(...).catch(this.error)
Ev(p, name) == [op |-> "ev", f |-> name, p |-> p, v |-> Null, g |-> 0]
\* a TypeError or a rejected network call
Throw == [op |-> "throw", f |-> "", p |-> 0, v |-> Null, g |-> 0]

Blk(ops, prot) == [ops |-> ops, prot |-> prot]
Seg(blocks, next) == [blocks |-> blocks, next |-> next]
Then(a, b) == [blocks |-> a.blocks \o b.blocks, next |-> b.next]

\* Capabilities and fields whose value the model keeps.
Stored == {"nowConsumptionKwh", "previousConsumptionKwh", "chargingConsumptionKwh",
           "chargerStatus", "CarConnected", "onoff", "meter", "measure"}

Apply(D, o) ==
  IF o.op = "set" /\ o.f = "isGettingData" THEN [D EXCEPT !.isGettingData = o.v]
  ELSE IF o.op \in {"set", "pub", "pubna"} /\ o.f \in Stored THEN [D EXCEPT ![o.f][o.p] = o.v]
  ELSE IF o.op = "pubsum" THEN [D EXCEPT ![o.f][0] = Some(Num(D[o.f][1]) + Num(D[o.f][2]))]
  ELSE D

IsPub(o) == o.op \in {"pub", "pubna", "pubsum"}

RECURSIVE RunOps(_, _, _, _)
\* Runs ops[i..]; the publish at index failIdx is rejected by the host.  A
\* rejection surfaces when its Promise.all group has been issued in full.
RunOps(st, ops, i, failIdx) ==
  IF i > Len(ops) THEN [st EXCEPT !.threw = st.pending]
  ELSE LET o == ops[i] IN
    IF st.pending /\ ~(IsPub(o) /\ o.g = st.g) THEN [st EXCEPT !.threw = TRUE]
    ELSE IF o.op = "throw" THEN [st EXCEPT !.threw = TRUE]
    ELSE IF i = failIdx /\ IsPub(o)
      THEN RunOps([st EXCEPT !.pending = (o.op # "pubna"), !.g = o.g, !.rejected = TRUE],
                  ops, i + 1, failIdx)
    ELSE RunOps([st EXCEPT !.D = Apply(@, o),
                           !.ev = IF o.op = "ev" THEN Append(@, <<o.p, o.f>>) ELSE @],
                ops, i + 1, failIdx)

RECURSIVE RunBlocks(_, _, _, _)
RunBlocks(st, blocks, b, failAt) ==
  IF b > Len(blocks) THEN st
  ELSE LET r == RunOps([st EXCEPT !.pending = FALSE], blocks[b].ops, 1, failAt) IN
    IF r.threw /\ ~blocks[b].prot THEN [r EXCEPT !.uncaught = TRUE]
    ELSE RunBlocks([r EXCEPT !.threw = FALSE, !.caught = @ \/ r.threw],
                   blocks, b + 1, failAt - Len(blocks[b].ops))

Run(D, seg, failAt) ==
  RunBlocks([D |-> D, ev |-> <<>>, pending |-> FALSE, g |-> 0, threw |-> FALSE,
             caught |-> FALSE, uncaught |-> FALSE, rejected |-> FALSE],
            seg.blocks, 1, failAt)

RECURSIVE Flat(_)
Flat(blocks) == IF blocks = <<>> THEN <<>> ELSE Head(blocks).ops \o Flat(Tail(blocks))

\* 0 = the host accepts every publish; k = it rejects the publish at op k.
FailPoints(seg) ==
  LET ops == Flat(seg.blocks) IN {0} \cup {k \in 1..Len(ops) : IsPub(ops[k])}

\* The flow cards triggered for port p, in order.
EventsOf(ev, p) ==
  LET sel == SelectSeq(ev, LAMBDA e : e[1] = p) IN [i \in 1..Len(sel) |-> sel[i][2]]

----------------------------------------------------------------------------
(* The connection state machine of getCAdata *)

\* "Correct originalCarConnected": Disconnected (AURA: and Unknown) is
\* compared as the vendor's Available.
Normalise(v, orig) ==
  IF orig = "Disconnected" THEN "Available"
  ELSE IF v = "aura" /\ orig = "Unknown" THEN "Available"
  ELSE orig

\* The "charging completed" rules: Charging -> Connected on every variant,
\* Charging -> SuspendedEV and Charging -> Finishing on AURA only.
Completed(v, orig, status) ==
  /\ orig = "Charging"
  /\ status \in (IF v = "aura" THEN {"Connected", "SuspendedEV", "Finishing"}
                 ELSE {"Connected"})

\* chargerStatus published by a "charging completed" rule.
CompletedStatus(status) == IF status = "Finishing" THEN "Finishing" ELSE "Connected"

\* originalCarConnected after a "charging completed" rule: LUNA and HALO
\* assign 'Connected', AURA leaves the local as it was.
AfterCompleted(v, orig) == IF v = "aura" THEN orig ELSE "Connected"

SwitchAvailableWrong(v, status) ==
  IF status \in {"Connected", "Charging"} THEN status
  ELSE IF v = "luna" /\ status # "Available" THEN "Unknown"
  ELSE status

\* chargerStatus chosen by the switch (status) of the generic rule.
SwitchStatus(v, status) ==
  IF status = "Available" THEN "Disconnected"
  ELSE IF status \in {"Connected", "Charging"} THEN status
  ELSE IF v = "luna" THEN "Unknown"
  ELSE status

SwitchEventNone(status) == "none"

\* Flow card triggered by the switch (status) of the generic rule.
SwitchEvent(status) ==
  IF status = "Available" THEN "chargerDisconnected"
  ELSE IF status = "Connected" THEN "chargerConnected"
  ELSE IF status = "Charging" THEN "chargerCharging"
  ELSE "none"

\* One entry of connectorStatuses[i].measurements.
Reading(c, u) == [current |-> c, voltage |-> u]

\* The measurements of a connector charging on one phase: 10 A at 100 V.
OnePhase == <<Reading(10, 100)>>

\* The measurement lists the vendor reports for a charging connector: one,
\* two and four entries.
PhaseReadings ==
  {OnePhase,
   <<Reading(10, 100), Reading(10, 200)>>,
   <<Reading(10, 100), Reading(10, 200), Reading(10, 100), Reading(10, 200)>>}

RECURSIVE SumVA(_)
\* reduce((acc, m) => acc + m.current * m.voltage, 0)
SumVA(ms) == IF ms = <<>> THEN 0 ELSE Head(ms).current * Head(ms).voltage + SumVA(Tail(ms))

PowerEstimateAll(ms) == SumVA(ms) \div 1000

\* measurements.slice(0, 3).reduce(...) / 1000 (the readings drawn are whole
\* kilowatts, so the division is exact).
PowerEstimate(ms) == SumVA(SubSeq(ms, 1, IF Len(ms) < 3 THEN Len(ms) ELSE 3)) \div 1000

\* totalConsumptionKwh and measurements of one connector status.
ConsumptionOps(v, p, kwh, meas, ms) ==
  <<Set("nowConsumptionKwh", p, Some(kwh))>> \o
  (IF kwh = 0 THEN <<>>
   ELSE IF meas = "missing"
     THEN (IF v = "aura" THEN <<Set("nowConsumptionKwh", p, Some(0))>> ELSE <<Throw>>)
   ELSE IF meas = "some" THEN <<Set("chargingConsumptionKwh", p, Some(PowerEstimate(ms)))>>
   ELSE <<>>)

\* The rules applied to one port: capability value read, status received.
TransitionOps(v, p, capValue, status) ==
  LET orig == Normalise(v, capValue)
      done == Completed(v, orig, status)
      orig2 == IF done THEN AfterCompleted(v, orig) ELSE orig
  IN (IF done THEN <<Ev(p, "chargingCompleted"),
                     Pub("CarConnected", p, CompletedStatus(status), 1)>>
      ELSE <<>>) \o
     (IF status # orig2
      THEN (IF SwitchEvent(status) # "none" THEN <<Ev(p, SwitchEvent(status))>> ELSE <<>>)
           \o <<Pub("CarConnected", p, SwitchStatus(v, status), 2)>>
      ELSE <<>>)

\* The try body of getCAdata once the status response is in.
StatusOps(v, D, st, kwh, meas, ms) ==
  IF v = "aura"
  THEN (IF Access(1) THEN ConsumptionOps(v, 1, kwh[1], meas[1], ms[1])
                          \o TransitionOps(v, 1, D.CarConnected[1], st[1])
        ELSE <<Pub("CarConnected", 1, "Off", 3)>>) \o
       (IF Access(2) THEN ConsumptionOps(v, 2, kwh[2], meas[2], ms[2])
                          \o TransitionOps(v, 2, D.CarConnected[2], st[2])
        ELSE <<Pub("CarConnected", 2, "Off", 4)>>)
  ELSE ConsumptionOps(v, 1, kwh[1], meas[1], ms[1]) \o TransitionOps(v, 1, D.CarConnected[1], st[1])

----------------------------------------------------------------------------
(* Accounting: getChargingInfo / getChargingInfo2 *)

\* "Charging port is OFF": the defaults AURA publishes in one Promise.all.
Defaults(p) ==
  <<Pub("LastCharged", p, Null, 1), Pub("NowCharged", p, Null, 1),
    Pub("measure", p, Some(0), 1), Pub("meter", p, Some(0), 1)>>

\* The try body of getChargingInfo once the sessions response (rows rows of
\* it) is in.  LUNA reads response.data[0] / response.data[1] unguarded.
AcctOps(v, p, D, rows) ==
  LET now == D.nowConsumptionKwh[p]
      prev == D.previousConsumptionKwh[p]
      meter == Num(D.meter[p])
      last == IF now = Null /\ v # "aura"
              THEN <<PubNoAwait("LastCharged", p, Null), Throw>>
              ELSE <<Pub("LastCharged", p, Null, 3), Pub("NowCharged", p, Null, 3)>>
  IN IF now = Some(0)
     THEN <<Set("previousConsumptionKwh", p, Some(0))>>
          \o (IF v = "luna" /\ rows = 0 THEN <<Throw>> ELSE <<>>)
          \o <<Pub("measure", p, Some(0), 1)>> \o last
     ELSE <<Set("previousConsumptionKwh", p, now)>>
          \o (IF v = "luna" /\ rows < 2 THEN <<Throw>> ELSE <<>>)
          \o <<Pub("measure", p, D.chargingConsumptionKwh[p], 2),
               Pub("meter", p, Some(meter + (Num(now) - Num(prev))), 2)>>
          \o last

\* if (this.portAccess === 'both'): meter_both and measure_both.
Aggregate ==
  IF portAccess = "both"
  THEN <<Blk(<<PubSum("meter", 5), PubSum("measure", 5)>>, FALSE)>>
  ELSE <<>>

\* getChargingInfo2 from its entry to its first network await.
getChargingInfo2(D) ==
  IF ~D.onoff[2] THEN Seg(<<Blk(Defaults(2), FALSE)>>, "done")
  ELSE IF Access(2) THEN Seg(<<>>, "sess2")
  ELSE Seg(<<Blk(<<Pub("LastCharged", 2, Null, 1), Pub("NowCharged", 2, Null, 2),
                   Pub("measure", 2, Some(0), 3), Pub("meter", 2, Some(0), 4)>>, FALSE)>>
           \o Aggregate, "done")

\* getChargingInfo from its entry to its first network await.
getChargingInfo(v, D) ==
  IF v = "aura"
  THEN IF ~D.onoff[1] THEN Then(Seg(<<Blk(Defaults(1), FALSE)>>, ""), getChargingInfo2(D))
       ELSE IF Access(1) THEN Seg(<<>>, "sess1")
       ELSE Then(Seg(<<Blk(<<PubNoAwait("LastCharged", 1, Null), PubNoAwait("NowCharged", 1, Null),
                             PubNoAwait("measure", 1, Some(0)), PubNoAwait("meter", 1, Some(0))>>,
                           FALSE)>>, ""),
                 getChargingInfo2(D))
  ELSE IF ~D.onoff[1] THEN Seg(<<Blk(<<Set("isGettingData", 0, FALSE)>>, FALSE)>>, "done")
       ELSE Seg(<<>>, "sess1")

\* The rest of getChargingInfo (port 1) after its sessions request returned.
AfterSessions1(v, D, ok, rows) ==
  LET body == Blk(IF ok THEN AcctOps(v, 1, D, rows) ELSE <<Throw>>, TRUE) IN
  IF v = "aura" THEN Then(Seg(<<body>>, ""), getChargingInfo2(D))
  ELSE Seg(<<body, Blk(<<Set("isGettingData", 0, FALSE)>>, FALSE)>>, "done")

\* The rest of getChargingInfo2 after its sessions request returned.
AfterSessions2(v, D, ok, rows) ==
  Seg(<<Blk(IF ok THEN AcctOps(v, 2, D, rows) ELSE <<Throw>>, TRUE),
        Blk(<<Set("isGettingData", 0, FALSE)>>, FALSE)>> \o Aggregate, "done")

\* finally of AURA's getCAdata: after getChargingInfo returned, clear the flag.
PollTail(v, seg) ==
  IF v = "aura" /\ seg.next = "done"
  THEN Then(seg, Seg(<<Blk(<<Set("isGettingData", 0, FALSE)>>, FALSE)>>, "done"))
  ELSE seg

\* getCAdata from the status response to the next network await.
AfterStatus(v, D, ok, st, kwh, meas, ms) ==
  PollTail(v, Then(Seg(<<Blk(IF ok THEN StatusOps(v, D, st, kwh, meas, ms) ELSE <<Throw>>, TRUE)>>, ""),
                   getChargingInfo(v, D)))

----------------------------------------------------------------------------
(* getCAdataLoop timing *)

\* const minTimeout / maxTimeout of getCAdataLoop
minTimeout(v) == IF v = "aura" THEN 14 ELSE 19
maxTimeout(v) == IF v = "luna" THEN 60 ELSE IF v = "halo" THEN 90 ELSE 60
\* setTimeout(..., N * 1000) of the catch and of the else branch
RetryDelay(v) == IF v = "aura" THEN 15 ELSE 19

Max(a, b) == IF a > b THEN a ELSE b
Min(a, b) == IF a < b THEN a ELSE b
\* Math.round(x / 6): the nearest integer, halves upwards
RoundSixths(x) == (x + 3) \div 6
TimeoutUnclamped(v, e) == RoundSixths(6 * minTimeout(v) + 4 * e)

\* Math.round(Math.max(min, Math.min(max, min + (elapsed * 2) / 3))), in sixths
Timeout(v, e) ==
  RoundSixths(Max(6 * minTimeout(v), Min(6 * maxTimeout(v), 6 * minTimeout(v) + 4 * e)))

----------------------------------------------------------------------------
(* State *)

Obs0 ==
  [kind |-> "none", busy |-> FALSE, issued |-> FALSE, ok |-> FALSE, failed |-> FALSE,
   rejected |-> FALSE, p |-> 0, rows |-> 0, now |-> Null, prev |-> Null,
   before |-> Null, orig |-> [p \in Ports |-> ""], raw |-> [p \in Ports |-> ""],
   ev |-> [p \in Ports |-> <<>>], aborted |-> FALSE, more |-> FALSE, raised |-> FALSE,
   e |-> 0, failedWrite |-> 0]

Poll0 == [raw |-> [p \in Ports |-> ""], ev |-> [p \in Ports |-> <<>>],
          rawBefore |-> [p \in Ports |-> ""], evBefore |-> [p \in Ports |-> <<>>],
          kwh |-> [p \in Ports |-> 0], meas |-> [p \in Ports |-> "empty"],
          ms |-> [p \in Ports |-> <<>>], estBefore |-> [p \in Ports |-> Null],
          peak |-> [p \in Ports |-> 0], clean |-> FALSE, over |-> FALSE]

Cmd0 == [pc |-> "idle", p |-> 0, kind |-> "none", value |-> FALSE, mode |-> "",
         stop |-> "none", write |-> "none", rfidLock |-> Null, cableLock |-> Null]

\* The lock settings the vendor holds when the device comes up.
VLocks0 == [p \in Ports |-> [rfidLock |-> Some(FALSE), cableLock |-> Some(FALSE)]]

\* The fields onInit assigns, and the capability values the host holds.
Dev0(onoff) ==
  [isGettingData |-> FALSE,
   nowConsumptionKwh |-> [p \in Ports |-> Null],
   previousConsumptionKwh |-> [p \in Ports |-> Null],
   chargingConsumptionKwh |-> [p \in Ports |-> Null],
   chargerStatus |-> [p \in Ports |-> "null"],
   CarConnected |-> [p \in Ports |-> "null"],
   onoff |-> onoff,
   meter |-> [s \in Slots |-> Null],
   measure |-> [s \in Slots |-> Null]]

\* onInit has run: the first getCAdataLoop call is pending, the renewal timer
\* is armed.  The on/off capability holds what the host kept for it.
Init ==
  /\ variant \in Variants
  /\ portAccess \in (IF variant = "aura" THEN {"both", "port1", "port2"} ELSE {"port1"})
  /\ \E onoff \in [Ports -> BOOLEAN] :
       /\ \A p \in Ports : onoff[p] => (p \in PortsOf(variant) /\ Access(p))
       /\ dev = Dev0(onoff)
       /\ vMode = [p \in Ports |-> IF onoff[p] THEN "On" ELSE "Off"]
  /\ pollPc = "timer"
  /\ pollTimer = 0
  /\ hourPc = "wait"
  /\ cmd = Cmd0
  /\ statusInFlight = 0
  /\ faults = 0
  /\ obs = Obs0
  /\ credentials = [c \in CredentialNames |-> TRUE]
  /\ chargeAmpsToken = Some("tokenA")
  /\ chargeAmpsRefreshToken = Some("tokenA")
  /\ initPc = "done"
  /\ lastPoll = Poll0
  /\ statusRFID = [p \in Ports |-> Some(FALSE)]
  /\ statusCableLock = [p \in Ports |-> Some(FALSE)]
  /\ lockWrites = <<>>
  /\ vLocks = VLocks0

\* The connectors the vendor reports to this device.
Live(p) == p \in PortsOf(variant) /\ Access(p)

\* The outcomes of one request and of the publishes that follow it which the
\* fault budget still allows.
Faulty(ok, failAt) == (IF ok THEN 0 ELSE 1) + (IF failAt = 0 THEN 0 ELSE 1)
Allowed(ok, failAt) == faults + Faulty(ok, failAt) <= MaxFaults

MeterInRange(D) == \A p \in Ports : Num(D.meter[p]) \in -MaxMeter..MaxMeter

----------------------------------------------------------------------------
(* The vendor *)

----------------------------------------------------------------------------
(* The short poll cycle *)

LoopBusyNever(D) == FALSE

\* if (!this.isGettingData) of getCAdataLoop
LoopBusy(D) == D.isGettingData

\* The poll timer fires: getCAdataLoop, and getCAdata up to its status request.
getCAdataLoop ==
  /\ pollPc = "timer"
  /\ IF LoopBusy(dev)
     THEN /\ pollTimer' = RetryDelay(variant)
          /\ UNCHANGED <<dev, pollPc, statusInFlight>>
     ELSE IF dev.isGettingData
     THEN \* getCAdata's own check of the flag: it returns at once
          /\ pollTimer' = Timeout(variant, 0)
          /\ UNCHANGED <<dev, pollPc, statusInFlight>>
     ELSE /\ dev' = [dev EXCEPT !.isGettingData = TRUE]
          /\ pollPc' = "status"
          /\ statusInFlight' = statusInFlight + 1
          /\ pollTimer' = 0
  /\ obs' = [Obs0 EXCEPT !.kind = "fire", !.busy = dev.isGettingData,
                         !.issued = (statusInFlight' > statusInFlight),
                         !.failedWrite = IF obs.kind = "write" /\ ~obs.ok /\ pollPc' = "status"
                                         THEN obs.p ELSE 0]
  /\ UNCHANGED <<locks, lastPoll, session, initPc, variant, portAccess, vMode, hourPc, cmd, faults>>

\* getCAdata has returned to the try of getCAdataLoop.
Returns(r, seg) == ~r.uncaught /\ seg.next = "done"

\* How getCAdataLoop goes on once getCAdata has suspended or returned; the
\* cycle took e seconds.
PollGoesOn(r, seg, e) ==
  IF r.uncaught THEN /\ pollPc' = "timer" /\ pollTimer' = RetryDelay(variant)
  ELSE IF seg.next = "done"
  THEN /\ pollPc' = "timer" /\ pollTimer' = Timeout(variant, e)
  ELSE /\ pollPc' = seg.next /\ UNCHANGED pollTimer

\* The durations a step of the cycle can report: one of E where the cycle ends.
Durations(r, seg, E) == IF Returns(r, seg) THEN E ELSE {0}

\* The status response (or its failure) arrives; the vendor reports statuses
\* drawn from S and readings of its session counter drawn from K.  The counter
\* restarts with every charging session, so within a session it only grows and
\* from one poll to the next it may take any value.
StatusReply(ok, st, kwh, meas, ms, E) ==
  /\ pollPc = "status"
  /\ LET seg == AfterStatus(variant, dev, ok, st, kwh, meas, ms) IN
     \E failAt \in FailPoints(seg) :
       LET r == Run(dev, seg, failAt) IN
       \E e \in Durations(r, seg, E) :
       /\ Allowed(ok, failAt)
       /\ faults' = faults + Faulty(ok, failAt)
       /\ dev' = r.D
       /\ PollGoesOn(r, seg, e)
       /\ obs' = [Obs0 EXCEPT !.kind = "status", !.ok = ok, !.failed = r.caught,
                              !.rejected = r.rejected, !.aborted = r.uncaught,
                              !.e = e,
                              !.failedWrite = obs.failedWrite,
                              !.orig = dev.CarConnected, !.raw = st,
                              !.ev = [p \in Ports |-> EventsOf(r.ev, p)]]
  /\ statusInFlight' = statusInFlight - 1
  /\ UNCHANGED <<locks, session, initPc, variant, portAccess, vMode, hourPc, cmd>>

\* What a status response can hold: a failed request and a connector the
\* vendor does not report carry nothing; a counter of 0 comes with no readings.
StatusInputs(ok, st, kwh, meas) ==
  /\ \A p \in Ports : (~ok \/ ~Live(p)) => (st[p] = "Available" /\ kwh[p] = 0)
  /\ \A p \in Ports : kwh[p] = 0 => meas[p] = "empty"

\* The status response arrives, its readings (if any) those of one phase.
StatusResponseStep(S, K, E) ==
  \E ok \in BOOLEAN, st \in [Ports -> S \cup {"Available"}],
     kwh \in [Ports -> K \cup {0}], meas \in [Ports -> Measurements] :
    /\ StatusInputs(ok, st, kwh, meas)
    /\ StatusReply(ok, st, kwh, meas, [p \in Ports |-> OnePhase], E)

StatusResponseOn(S, K, E) == StatusResponseStep(S, K, E) /\ UNCHANGED lastPoll

\* The same step with its raw statuses and events added to the history; a
\* poll whose request failed reports nothing.
StatusResponseRecorded(S, K, E) ==
  /\ StatusResponseStep(S, K, E)
  /\ lastPoll' = IF obs'.ok
                 THEN [lastPoll EXCEPT !.raw = obs'.raw, !.ev = obs'.ev,
                                       !.rawBefore = lastPoll.raw, !.evBefore = lastPoll.ev]
                 ELSE lastPoll

\* The same step with readings drawn from M, and the counter, the readings
\* and the power estimate held before added to the history.
StatusResponseMeasured(S, K, E, M) ==
  \E ok \in BOOLEAN, st \in [Ports -> S \cup {"Available"}],
     kwh \in [Ports -> K \cup {0}], meas \in [Ports -> Measurements], ms \in [Ports -> M] :
    /\ StatusInputs(ok, st, kwh, meas)
    /\ \A p \in Ports : meas[p] # "some" => ms[p] = OnePhase
    /\ StatusReply(ok, st, kwh, meas, ms, E)
    /\ lastPoll' = [lastPoll EXCEPT !.kwh = kwh, !.meas = meas, !.ms = ms,
                                     !.estBefore = dev.chargingConsumptionKwh]

\* The same step within one charging session of every connector the vendor
\* reports: the counter read never falls below the one read before, except
\* that it returns to 0 when the session ends.  The history keeps the highest
\* counter read, whether the status stage ran without any error on a response
\* with its measurements, and whether the session is over.
StatusResponseInSession(K) ==
  /\ ~lastPoll.over
  /\ \E ok \in BOOLEAN, kwh \in [Ports -> K \cup {0}], meas \in [Ports -> Measurements] :
       LET st == [p \in Ports |-> IF ok /\ Live(p) THEN "Charging" ELSE "Available"] IN
       /\ StatusInputs(ok, st, kwh, meas)
       /\ \A p \in Ports : (ok /\ Live(p)) => (kwh[p] >= lastPoll.peak[p] \/ kwh[p] = 0)
       /\ StatusReply(ok, st, kwh, meas, [p \in Ports |-> OnePhase], {0})
       /\ lastPoll' = [lastPoll EXCEPT
                         !.peak = [p \in Ports |-> IF kwh[p] > @[p] THEN kwh[p] ELSE @[p]],
                         !.clean = /\ ok /\ ~obs'.failed /\ ~obs'.rejected
                                   /\ \A p \in Ports : meas[p] # "missing",
                         !.over = \E p \in Ports : ok /\ Live(p) /\ kwh[p] < lastPoll.peak[p]]

StatusResponse == StatusResponseOn(RawStatuses, 0..MaxKwh, Elapsed)

AcctObs(D, p, ok, rows, r) ==
  [Obs0 EXCEPT !.kind = "acct", !.p = p, !.ok = ok, !.rows = rows, !.failed = r.caught,
               !.rejected = r.rejected, !.now = D.nowConsumptionKwh[p],
               !.prev = D.previousConsumptionKwh[p], !.before = D.meter[p],
               !.failedWrite = obs.failedWrite, !.aborted = r.uncaught]

\* The charging-sessions response of port 1 arrives in the poll cycle.
SessionsResponse1On(E) ==
  /\ pollPc = "sess1"
  /\ \E ok \in BOOLEAN, rows \in 0..2 :
       LET seg == PollTail(variant, AfterSessions1(variant, dev, ok, rows)) IN
       \E failAt \in FailPoints(seg) :
         LET r == Run(dev, seg, failAt) IN
         \E e \in Durations(r, seg, E) :
         /\ Allowed(ok, failAt)
         /\ faults' = faults + Faulty(ok, failAt)
         /\ MeterInRange(r.D)
         /\ dev' = r.D
         /\ PollGoesOn(r, seg, e)
         /\ obs' = [AcctObs(dev, 1, ok, rows, r) EXCEPT !.e = e]
  /\ UNCHANGED <<locks, lastPoll, session, initPc, variant, portAccess, vMode, hourPc, cmd, statusInFlight>>

\* The charging-sessions response of port 2 arrives in the poll cycle.
SessionsResponse2On(E) ==
  /\ pollPc = "sess2"
  /\ \E ok \in BOOLEAN, rows \in 0..2 :
       LET seg == PollTail(variant, AfterSessions2(variant, dev, ok, rows)) IN
       \E failAt \in FailPoints(seg) :
         LET r == Run(dev, seg, failAt) IN
         \E e \in Durations(r, seg, E) :
         /\ Allowed(ok, failAt)
         /\ faults' = faults + Faulty(ok, failAt)
         /\ MeterInRange(r.D)
         /\ dev' = r.D
         /\ PollGoesOn(r, seg, e)
         /\ obs' = [AcctObs(dev, 2, ok, rows, r) EXCEPT !.e = e]
  /\ UNCHANGED <<locks, lastPoll, session, initPc, variant, portAccess, vMode, hourPc, cmd, statusInFlight>>

SessionsResponse1 == SessionsResponse1On(Elapsed)

SessionsResponse2 == SessionsResponse2On(Elapsed)

Poll == getCAdataLoop \/ StatusResponse \/ SessionsResponse1 \/ SessionsResponse2

\* The poll cycle with the vendor's statuses drawn from S, its counter readings
\* from K and the duration of the cycle from E.
PollOn(S, K, E) ==
  \/ getCAdataLoop
  \/ StatusResponseOn(S, K, E)
  \/ SessionsResponse1On(E)
  \/ SessionsResponse2On(E)

----------------------------------------------------------------------------
(* The hourly refresh: renewTokenLoop, getHourlyData and its chain *)

\* The else branch of getChargerInfo / getCharger2Info: four awaited publishes.
NoAccessPubs(p) ==
  <<Pub("CurrentLimit", p, Null, 1), Pub("RFIDStatus", p, Null, 2),
    Pub("onoffStatus", p, Null, 3), Pub("CableLockStatus", p, Null, 4)>>

getCharger2InfoAlways(v) == IF v # "aura" THEN Seg(<<>>, "done") ELSE Seg(<<>>, "charger2")

\* getCharger2Info from its entry to its network await (AURA only).
getCharger2Info(v) ==
  IF v # "aura" THEN Seg(<<>>, "done")
  ELSE IF Access(2) THEN Seg(<<>>, "charger2")
  ELSE Seg(<<Blk(NoAccessPubs(2), FALSE)>>, "done")

\* getChargerInfo from its entry to its network await.
getChargerInfo(v) ==
  IF v = "aura" /\ ~Access(1)
  THEN Then(Seg(<<Blk(NoAccessPubs(1), FALSE)>>, ""), getCharger2Info(v))
  ELSE Seg(<<>>, "charger1")

\* getLightinfo from its entry to its network await.
getLightinfo(v) ==
  IF v = "aura" /\ portAccess # "both"
  THEN Then(Seg(<<Blk(<<Pub("LEDringStatus", 0, Null, 1)>>, FALSE)>>, ""), getChargerInfo(v))
  ELSE Seg(<<>>, "light")

\* getOwnedChargepointsInfo after its request returned.
AfterOwned(v, ok) ==
  Then(Seg(<<Blk(IF ok THEN <<Pub("FW", 0, Null, 1), Pub("Version", 0, Null, 1)>>
                 ELSE <<Throw>>, TRUE)>>, ""),
       getLightinfo(v))

\* getLightinfo after its request returned; HALO goes on to getOutletInfo.
AfterLight(v, ok) ==
  Then(Seg(<<Blk(IF ok THEN <<Pub("LEDringStatus", 0, Null, 1), Pub("LEDringButton", 0, Null, 1)>>
                       \o (IF v = "halo" THEN <<Pub("DownLightStatus", 0, Null, 1),
                                                Pub("DownLightButton", 0, Null, 1)>>
                           ELSE <<>>)
                 ELSE <<Throw>>, TRUE)>>, ""),
       IF v = "halo" THEN Seg(<<>>, "outlet") ELSE getChargerInfo(v))

\* getOutletInfo (HALO) after its request returned.
AfterOutlet(v, ok) ==
  Then(Seg(<<Blk(IF ok THEN <<Pub("OutletButton", 0, Null, 1), Pub("OutletStatus", 0, Null, 1),
                              Pub("RFIDStatus", 0, Null, 1)>>
                 ELSE <<Throw>>, TRUE)>>, ""),
       getChargerInfo(v))

\* The try body of getChargerInfo / getCharger2Info: mode is response.data.mode.
ChargerOps(v, p, mode) ==
  <<Set("chargerStatus", p, mode),
    Pub("onoffStatus", p, Null, 1), Pub("onoff", p, mode = "On", 1),
    Pub("CurrentLimit", p, Null, 1), Pub("RFIDStatus", p, Null, 1),
    Pub("RFIDButton", p, Null, 1)>>
  \o (IF v = "halo" THEN <<>>
      ELSE <<Pub("CableLockStatus", p, Null, 1), Pub("CableLockButton", p, Null, 1)>>)

ChargerBlock(v, p, ok, mode) == Blk(IF ok THEN ChargerOps(v, p, mode) ELSE <<Throw>>, TRUE)

\* getChargerInfo after its request returned.
AfterCharger1(v, ok, mode) ==
  Then(Seg(<<ChargerBlock(v, 1, ok, mode)>>, ""), getCharger2Info(v))

\* getCharger2Info after its request returned: its finally calls
\* getChargingInfo, which reads the on/off capabilities as they are by then.
AfterCharger2(v, D, ok, mode, failAt) ==
  LET first == Seg(<<ChargerBlock(v, 2, ok, mode)>>, "") IN
  Then(first, getChargingInfo(v, Run(D, first, failAt).D))

\* The renewal timer fires: renewTokenLoop up to the refresh-token request.
renewTokenLoop ==
  /\ hourPc = "wait"
  /\ hourPc' = "renew"
  /\ obs' = Obs0
  /\ UNCHANGED <<locks, lastPoll, session, initPc, variant, portAccess, dev, vMode, pollPc, pollTimer, cmd,
                 statusInFlight, faults>>

AfterRenewForgets(old, ok, new) == IF ok THEN new ELSE Null

\* What renewToken leaves in this.chargeAmpsToken / this.chargeAmpsRefreshToken:
\* the value of the response, or on failure (caught and logged) the old one.
AfterRenew(old, ok, new) == IF ok THEN new ELSE old

\* renewToken returns (it catches its own failure); getHourlyData starts with
\* the owned-chargepoints request.  The vendor issues a pair drawn from T.
RenewResponseOn(T) ==
  /\ hourPc = "renew"
  /\ \E ok \in BOOLEAN, t \in T :
       /\ Allowed(ok, 0)
       /\ faults' = faults + Faulty(ok, 0)
       /\ chargeAmpsToken' = AfterRenew(chargeAmpsToken, ok, Some(t))
       /\ chargeAmpsRefreshToken' = AfterRenew(chargeAmpsRefreshToken, ok, Some(t))
       /\ obs' = [Obs0 EXCEPT !.kind = "renew", !.ok = ok]
  /\ hourPc' = "owned"
  /\ UNCHANGED <<locks, lastPoll, credentials, initPc, variant, portAccess, dev, vMode, pollPc, pollTimer,
                 cmd, statusInFlight>>

RenewResponse == RenewResponseOn(Tokens)

\* What the last step of the hourly chain did.
HourObs(ok, r, seg) ==
  [Obs0 EXCEPT !.kind = "hour", !.ok = ok, !.failed = r.caught, !.rejected = r.rejected,
               !.aborted = r.uncaught, !.more = (seg.next # "done")]

\* onInit after its await of getHourlyData: a rejection leaves onInit, else
\* getCAdataLoop is called and the first renewal timer is set.
AfterFirstHourly(r) ==
  IF r.uncaught
  THEN /\ initPc' = "hourlyFailed"
       /\ hourPc' = "off"
       /\ dev' = r.D
       /\ UNCHANGED <<pollPc, pollTimer, statusInFlight>>
  ELSE /\ initPc' = "done"
       /\ hourPc' = "wait"
       /\ IF LoopBusy(r.D)
          THEN /\ dev' = r.D
               /\ pollPc' = "timer"
               /\ pollTimer' = RetryDelay(variant)
               /\ UNCHANGED statusInFlight
          ELSE /\ dev' = [r.D EXCEPT !.isGettingData = TRUE]
               /\ pollPc' = "status"
               /\ pollTimer' = 0
               /\ statusInFlight' = statusInFlight + 1

\* How the hourly chain goes on: it ends when the last stage returns or when
\* a rejection escapes, to the catch of renewTokenLoop or out of onInit.
HourGoesOn(r, seg) ==
  IF ~r.uncaught /\ seg.next # "done"
  THEN /\ hourPc' = seg.next
       /\ dev' = r.D
       /\ UNCHANGED <<initPc, pollPc, pollTimer, statusInFlight>>
  ELSE IF initPc # "hourly"
  THEN /\ hourPc' = "wait"
       /\ dev' = r.D
       /\ UNCHANGED <<initPc, pollPc, pollTimer, statusInFlight>>
  ELSE AfterFirstHourly(r)

\* The try body of getChargerInfo / getCharger2Info assigns rfidLock and
\* cableLock of the response to the device's copies (HALO has no cable lock).
ChargerLocks(pc, ok) ==
  LET p == IF pc = "charger1" THEN 1 ELSE 2 IN
  IF ok /\ pc \in {"charger1", "charger2"}
  THEN /\ statusRFID' = [statusRFID EXCEPT ![p] = vLocks[p].rfidLock]
       /\ statusCableLock' = IF variant = "halo" THEN statusCableLock
                              ELSE [statusCableLock EXCEPT ![p] = vLocks[p].cableLock]
  ELSE UNCHANGED <<statusRFID, statusCableLock>>

\* One stage of the hourly chain whose request returned.
HourStage(pc, ok, seg, failAt) ==
  LET r == Run(dev, seg, failAt) IN
  /\ hourPc = pc
  /\ failAt \in FailPoints(seg)
  /\ Allowed(ok, failAt)
  /\ faults' = faults + Faulty(ok, failAt)
  /\ MeterInRange(r.D)
  /\ HourGoesOn(r, seg)
  /\ ChargerLocks(pc, ok)
  /\ UNCHANGED <<lockWrites, vLocks, lastPoll, session, variant, portAccess, vMode, cmd>>

OwnedResponse ==
  \E ok \in BOOLEAN :
    LET seg == AfterOwned(variant, ok) IN
    \E failAt \in FailPoints(seg) :
      /\ HourStage("owned", ok, seg, failAt)
      /\ obs' = HourObs(ok, Run(dev, seg, failAt), seg)

LightResponse ==
  \E ok \in BOOLEAN :
    LET seg == AfterLight(variant, ok) IN
    \E failAt \in FailPoints(seg) :
      /\ HourStage("light", ok, seg, failAt)
      /\ obs' = HourObs(ok, Run(dev, seg, failAt), seg)

OutletResponse ==
  \E ok \in BOOLEAN :
    LET seg == AfterOutlet(variant, ok) IN
    \E failAt \in FailPoints(seg) :
      /\ HourStage("outlet", ok, seg, failAt)
      /\ obs' = HourObs(ok, Run(dev, seg, failAt), seg)

Charger1Response ==
  \E ok \in BOOLEAN :
    LET seg == AfterCharger1(variant, ok, vMode[1]) IN
    \E failAt \in FailPoints(seg) :
      /\ HourStage("charger1", ok, seg, failAt)
      /\ obs' = HourObs(ok, Run(dev, seg, failAt), seg)

\* The publishes that can follow the response of getCharger2Info.
Charger2Range(v) == 0..(Len(ChargerOps(v, 2, "On")) + Len(Defaults(1)) + Len(Defaults(2)))

Charger2Response ==
  \E ok \in BOOLEAN, failAt \in Charger2Range(variant) :
    LET seg == AfterCharger2(variant, dev, ok, vMode[2], failAt) IN
    /\ HourStage("charger2", ok, seg, failAt)
    /\ obs' = HourObs(ok, Run(dev, seg, failAt), seg)

\* The sessions responses of the getChargingInfo run the hourly chain started.
HourSessions1 ==
  \E ok \in BOOLEAN, rows \in 0..2 :
    LET seg == AfterSessions1(variant, dev, ok, rows) IN
    \E failAt \in FailPoints(seg) :
      /\ HourStage("sess1", ok, seg, failAt)
      /\ obs' = AcctObs(dev, 1, ok, rows, Run(dev, seg, failAt))

HourSessions2 ==
  \E ok \in BOOLEAN, rows \in 0..2 :
    LET seg == AfterSessions2(variant, dev, ok, rows) IN
    \E failAt \in FailPoints(seg) :
      /\ HourStage("sess2", ok, seg, failAt)
      /\ obs' = AcctObs(dev, 2, ok, rows, Run(dev, seg, failAt))

Hourly ==
  \/ renewTokenLoop \/ RenewResponse \/ OwnedResponse \/ LightResponse \/ OutletResponse
  \/ Charger1Response \/ Charger2Response \/ HourSessions1 \/ HourSessions2

\* The hourly refresh with the vendor's token pairs drawn from T.
HourlyOn(T) ==
  \/ renewTokenLoop \/ RenewResponseOn(T) \/ OwnedResponse \/ LightResponse \/ OutletResponse
  \/ Charger1Response \/ Charger2Response \/ HourSessions1 \/ HourSessions2

----------------------------------------------------------------------------
(* Start-up: onInit and loginCA *)

\* A device that is being started: no timer is set, no token is held.
InitBoot ==
  /\ variant \in Variants
  /\ portAccess \in (IF variant = "aura" THEN {"both", "port1", "port2"} ELSE {"port1"})
  /\ \E onoff \in [Ports -> BOOLEAN] :
       /\ \A p \in Ports : onoff[p] => (p \in PortsOf(variant) /\ Access(p))
       /\ dev = Dev0(onoff)
       /\ vMode = [p \in Ports |-> IF onoff[p] THEN "On" ELSE "Off"]
  /\ pollPc = "off"
  /\ pollTimer = 0
  /\ hourPc = "off"
  /\ cmd = Cmd0
  /\ statusInFlight = 0
  /\ faults = 0
  /\ obs = Obs0
  /\ credentials \in [CredentialNames -> BOOLEAN]
  /\ chargeAmpsToken = Null
  /\ chargeAmpsRefreshToken = Null
  /\ initPc = "start"
  /\ lastPoll = Poll0
  /\ statusRFID = [p \in Ports |-> Null]
  /\ statusCableLock = [p \in Ports |-> Null]
  /\ lockWrites = <<>>
  /\ vLocks = VLocks0

\* onInit up to the request of loginCA: the fields are reset (the capability
\* values stay with the host), basicPreparation
\* registers the capability listeners, loginCA posts /auth/login.
onInit ==
  /\ initPc = "start"
  /\ initPc' = "login"
  /\ chargeAmpsToken' = Null
  /\ chargeAmpsRefreshToken' = Null
  /\ dev' = [Dev0(dev.onoff) EXCEPT !.meter = dev.meter, !.measure = dev.measure,
                                    !.CarConnected = dev.CarConnected]
  /\ statusRFID' = [p \in Ports |-> Null]
  /\ statusCableLock' = [p \in Ports |-> Null]
  /\ obs' = [Obs0 EXCEPT !.kind = "init"]
  /\ UNCHANGED <<lockWrites, vLocks, lastPoll, credentials, variant, portAccess, vMode, pollPc, pollTimer, hourPc, cmd,
                 statusInFlight, faults>>

AfterLoginGoesOn(ok) == "hourly"

\* The try/catch of onInit around loginCA: a failed login is rethrown and
\* ends onInit, else getHourlyData is awaited.
AfterLogin(ok) == IF ok THEN "hourly" ELSE "loginFailed"

\* The login response arrives; the vendor accepts complete credentials only.
LoginResponseOn(T) ==
  /\ initPc = "login"
  /\ \E ok \in BOOLEAN, t \in T :
       /\ ok => \A c \in CredentialNames : credentials[c]
       /\ Allowed(ok, 0)
       /\ faults' = faults + Faulty(ok, 0)
       /\ chargeAmpsToken' = IF ok THEN Some(t) ELSE chargeAmpsToken
       /\ chargeAmpsRefreshToken' = IF ok THEN Some(t) ELSE chargeAmpsRefreshToken
       /\ initPc' = AfterLogin(ok)
       /\ hourPc' = IF AfterLogin(ok) = "hourly" THEN "owned" ELSE hourPc
       /\ obs' = [Obs0 EXCEPT !.kind = "login", !.ok = ok]
  /\ UNCHANGED <<locks, lastPoll, credentials, variant, portAccess, dev, vMode, pollPc, pollTimer, cmd,
                 statusInFlight>>

LoginResponse == LoginResponseOn(Tokens)

Boot == onInit \/ LoginResponse

----------------------------------------------------------------------------
(* Inbound commands *)

\* setChargerSettings / setChargerNSettings up to its first request: the
\* remotestop when userMode === 0, the connector-settings write otherwise.
SettingsEntry(c) ==
  IF c.mode = "0" THEN [c EXCEPT !.pc = "stop", !.stop = "issued"]
  ELSE [c EXCEPT !.pc = "write", !.write = "issued"]

AfterStopGivesUp(c, ok) ==
  IF ok THEN [c EXCEPT !.stop = "ok", !.pc = "write", !.write = "issued"]
  ELSE [c EXCEPT !.stop = "failed", !.pc = "idle"]

\* After the remotestop returned: wait 2 s on success, log on failure, then
\* issue the connector-settings write.
AfterStop(c, ok) ==
  [c EXCEPT !.stop = IF ok THEN "ok" ELSE "failed", !.pc = "write", !.write = "issued"]

\* basicPreparation has registered the capability listeners and flow cards.
Registered == initPc # "start"

\* The vendor's lock settings of connector p after a settings write carrying
\* rfid and cable returned (HALO's write carries no cableLock).
VendorLocks(held, v, p, rfid, cable, ok) ==
  IF ok THEN [held EXCEPT ![p] = [rfidLock |-> rfid,
                                  cableLock |-> IF v = "halo" THEN @.cableLock ELSE cable]]
  ELSE held

\* What the vendor stores for the mode field of a settings write.
ModeName(mode) == IF mode \in {"1", "On"} THEN "On" ELSE "Off"

\* The on/off toggle of the UI: onOnOffCapabilityChange / onOnOffNCapabilityChange.
onOnOffCapabilityChange(p, value) ==
  /\ cmd.pc = "idle"
  /\ Registered
  /\ Live(p)
  /\ cmd' = SettingsEntry([Cmd0 EXCEPT !.p = p, !.kind = "toggle", !.value = value,
                                       !.mode = IF value THEN "1" ELSE "0",
                                       !.rfidLock = statusRFID[p],
                                       !.cableLock = statusCableLock[p]])
  /\ obs' = Obs0
  /\ UNCHANGED <<locks, lastPoll, session, initPc, variant, portAccess, dev, vMode, pollPc, pollTimer, hourPc,
                 statusInFlight, faults>>

\* The flow actions "turn charger N on/off" (AURA): cardActionChargerNon/off.
cardActionCharger(p, on) ==
  /\ cmd.pc = "idle"
  /\ Registered
  /\ variant = "aura"
  /\ Access(p)
  /\ cmd' = SettingsEntry([Cmd0 EXCEPT !.p = p, !.kind = "card", !.value = on,
                                       !.mode = IF on THEN "On" ELSE "Off",
                                       !.rfidLock = statusRFID[p],
                                       !.cableLock = statusCableLock[p]])
  /\ dev' = [dev EXCEPT !.onoff[p] = on]
  /\ obs' = Obs0
  /\ UNCHANGED <<locks, lastPoll, session, initPc, variant, portAccess, vMode, pollPc, pollTimer, hourPc,
                 statusInFlight, faults>>

LightAllowedAlways(v) == TRUE

\* if (this.portAccess === 'both') of AURA's setLightAndDimmer; LUNA and HALO
\* have no such test.
LightAllowed(v) == v = "aura" => portAccess = "both"

\* The LED ring command (the switch of the UI or the flow action): onLunaLEDringControl /
\* onHaloLEDringButton / onAuraLEDringButton / cardActionLEDring, up to the
\* request of setLightAndDimmer, if it makes one.
onLEDringButton(value) ==
  /\ cmd.pc = "idle"
  /\ Registered
  /\ cmd' = IF LightAllowed(variant)
            THEN [Cmd0 EXCEPT !.kind = "light", !.value = value, !.pc = "write",
                              !.write = "issued"]
            ELSE Cmd0
  /\ obs' = [Obs0 EXCEPT !.kind = "light", !.issued = LightAllowed(variant)]
  /\ UNCHANGED <<locks, lastPoll, session, initPc, variant, portAccess, dev, vMode, pollPc, pollTimer, hourPc,
                 statusInFlight, faults>>

\* The outlet switch of the UI (HALO): onHaloOutletButton, up to the request
\* of setOutlet.
onHaloOutletButton(value) ==
  /\ cmd.pc = "idle"
  /\ Registered
  /\ variant = "halo"
  /\ cmd' = [Cmd0 EXCEPT !.kind = "outlet", !.value = value, !.pc = "write",
                         !.write = "issued"]
  /\ obs' = Obs0
  /\ UNCHANGED <<locks, lastPoll, session, initPc, variant, portAccess, dev, vMode, pollPc, pollTimer, hourPc,
                 statusInFlight, faults>>

SettingsWriteRethrows(kind, ok) == Seg(<<Blk(IF ok THEN <<>> ELSE <<Throw>>, FALSE)>>, "done")

\* setChargerSettings / setChargerNSettings / setLightAndDimmer / setOutlet
\* once the write returned: the try around the request, the catch that logs.
SettingsWrite(kind, ok) == Seg(<<Blk(IF ok THEN <<>> ELSE <<Throw>>, TRUE)>>, "done")

\* The remotestop request returns.
StopResponse ==
  /\ cmd.pc = "stop"
  /\ \E ok \in BOOLEAN :
       /\ Allowed(ok, 0)
       /\ faults' = faults + Faulty(ok, 0)
       /\ cmd' = AfterStop(cmd, ok)
  /\ obs' = Obs0
  /\ UNCHANGED <<locks, lastPoll, session, initPc, variant, portAccess, dev, vMode, pollPc, pollTimer, hourPc,
                 statusInFlight>>

\* The connector-settings write returns and the handler completes; the host
\* stores the toggled value once the capability listener has resolved.
WriteResponse ==
  /\ cmd.pc = "write"
  /\ \E ok \in BOOLEAN :
       LET r == Run(dev, SettingsWrite(cmd.kind, ok), 0) IN
       /\ Allowed(ok, 0)
       /\ faults' = faults + Faulty(ok, 0)
       /\ vMode' = IF ok /\ cmd.kind \in {"toggle", "card"}
                   THEN [vMode EXCEPT ![cmd.p] = ModeName(cmd.mode)] ELSE vMode
       /\ dev' = IF cmd.kind = "toggle" /\ ~r.uncaught
                 THEN [dev EXCEPT !.chargerStatus[cmd.p] = IF cmd.value THEN "true" ELSE "false",
                                  !.onoff[cmd.p] = cmd.value]
                 ELSE dev
       /\ obs' = [Obs0 EXCEPT !.kind = "write", !.ok = ok, !.p = cmd.p,
                              !.raised = r.uncaught]
  /\ vLocks' = IF cmd.kind \in {"toggle", "card"}
                THEN VendorLocks(vLocks, variant, cmd.p, cmd.rfidLock, cmd.cableLock, obs'.ok)
                ELSE vLocks
  /\ cmd' = Cmd0
  /\ UNCHANGED <<statusRFID, statusCableLock, lockWrites, lastPoll, session, initPc, variant,
                 portAccess, pollPc, pollTimer, hourPc, statusInFlight>>

\* The device's copy of a lock field of port p.
LocalLock(field, p) == IF field = "rfidLock" THEN statusRFID[p] ELSE statusCableLock[p]

\* Whether the handler assigns its copy of the field before it awaits the
\* write: the flow actions do (this.statusRFID = true precedes the
\* Promise.all), the buttons of the UI assign it after the await.
LocalLockFirst(by) == by = "card"

\* The connector-settings write a lock command issues: the commanded field
\* from its argument, the other fields from the device's copies as they are
\* when the handler is called.
LockWrite(p, field, value, by) ==
  [p |-> p, field |-> field, value |-> value, by |-> by,
   rfidLock |-> IF field = "rfidLock" THEN Some(value) ELSE statusRFID[p],
   cableLock |-> IF field = "cableLock" THEN Some(value) ELSE statusCableLock[p],
   mode |-> dev.chargerStatus[p]]

\* A lock command up to the await of its Promise.all: setChargerSettings has
\* issued its write (the mode it is given is never the number 0, so there is
\* no remotestop).
LockCommand(p, field, value, by) ==
  /\ Registered
  /\ Live(p)
  /\ Len(lockWrites) < MaxInFlight
  /\ lockWrites' = Append(lockWrites, LockWrite(p, field, value, by))
  /\ statusRFID' = IF field = "rfidLock" /\ LocalLockFirst(by)
                    THEN [statusRFID EXCEPT ![p] = Some(value)] ELSE statusRFID
  /\ statusCableLock' = IF field = "cableLock" /\ LocalLockFirst(by)
                         THEN [statusCableLock EXCEPT ![p] = Some(value)] ELSE statusCableLock
  /\ obs' = [Obs0 EXCEPT !.kind = "lock", !.p = p, !.issued = TRUE]
  /\ UNCHANGED <<vLocks, lastPoll, session, initPc, variant, portAccess, dev, vMode, pollPc,
                 pollTimer, hourPc, cmd, statusInFlight, faults>>

\* The RFID button of the UI: onlunaRFIDButton / onhaloRFIDButton / onauraNRFIDButton.
onRFIDButton(p, value) == LockCommand(p, "rfidLock", value, "button")

\* The cable lock button of the UI: onlunaCableLockButton / onauraNCableLockButton.
onCableLockButton(p, value) == variant # "halo" /\ LockCommand(p, "cableLock", value, "button")

\* The flow actions "RFID on/off": cardActionRFIDOn / cardActionRFIDOff.
cardActionRFID(p, on) == LockCommand(p, "rfidLock", on, "card")

\* The flow actions "cable lock on/off": cardActionCableLockOn / cardActionCableLockOff.
cardActionCableLock(p, on) == variant # "halo" /\ LockCommand(p, "cableLock", on, "card")

\* The publishes a lock command awaits together with its write; AURA wraps
\* the Promise.all in a try, LUNA and HALO let a rejection leave the handler.
LockPublish(v, w) ==
  Seg(<<Blk(<<Pub(IF w.field = "rfidLock" THEN "RFIDStatus" ELSE "CableLockStatus", w.p, Null, 1)>>
            \o (IF w.by = "card"
                THEN <<Pub(IF w.field = "rfidLock" THEN "RFIDButton" ELSE "CableLockButton",
                           w.p, Null, 1)>>
                ELSE <<>>),
            v = "aura")>>, "done")

\* The settings write of the oldest lock command returns and its handler
\* completes: the vendor stores what the write carried; a button assigns its
\* copy of the field once the Promise.all has resolved.  A mode the device
\* sends that is not "On" or "Off" leaves the vendor's mode as it is.
LockResponse ==
  /\ lockWrites # <<>>
  /\ LET w == Head(lockWrites)
         seg == LockPublish(variant, w) IN
     \E ok \in BOOLEAN, failAt \in FailPoints(seg) :
       LET r == Run(dev, seg, failAt)
           late == ~LocalLockFirst(w.by) /\ ~r.rejected IN
       /\ Allowed(ok, failAt)
       /\ faults' = faults + Faulty(ok, failAt)
       /\ vLocks' = VendorLocks(vLocks, variant, w.p, w.rfidLock, w.cableLock, ok)
       /\ vMode' = IF ok /\ w.mode \in {"On", "Off"} THEN [vMode EXCEPT ![w.p] = w.mode]
                   ELSE vMode
       /\ statusRFID' = IF late /\ w.field = "rfidLock"
                         THEN [statusRFID EXCEPT ![w.p] = Some(w.value)] ELSE statusRFID
       /\ statusCableLock' = IF late /\ w.field = "cableLock"
                              THEN [statusCableLock EXCEPT ![w.p] = Some(w.value)]
                              ELSE statusCableLock
       /\ obs' = [Obs0 EXCEPT !.kind = "lockWrite", !.ok = ok, !.p = w.p,
                              !.rejected = r.rejected, !.raised = r.uncaught]
  /\ lockWrites' = Tail(lockWrites)
  /\ UNCHANGED <<lastPoll, session, initPc, variant, portAccess, dev, pollPc, pollTimer, hourPc,
                 cmd, statusInFlight>>

\* The lock commands with the writes they make.
LockCommands ==
  \/ \E p \in Ports, value \in BOOLEAN : onRFIDButton(p, value)
  \/ \E p \in Ports, value \in BOOLEAN : onCableLockButton(p, value)
  \/ \E p \in Ports, on \in BOOLEAN : cardActionRFID(p, on)
  \/ \E p \in Ports, on \in BOOLEAN : cardActionCableLock(p, on)
  \/ LockResponse

\* The on/off toggle with the requests it makes.
Switch ==
  \/ \E p \in Ports, value \in BOOLEAN : onOnOffCapabilityChange(p, value)
  \/ StopResponse
  \/ WriteResponse

Commands ==
  \/ \E p \in Ports, value \in BOOLEAN : onOnOffCapabilityChange(p, value)
  \/ \E p \in Ports, on \in BOOLEAN : cardActionCharger(p, on)
  \/ \E value \in BOOLEAN : onLEDringButton(value)
  \/ \E value \in BOOLEAN : onHaloOutletButton(value)
  \/ StopResponse
  \/ WriteResponse

----------------------------------------------------------------------------
(* Specifications *)

\* The whole device.
Next == Boot \/ Poll \/ Hourly \/ Commands \/ LockCommands

Spec == Init /\ [][Next]_vars

\* The connection state machine under every sequence of raw statuses.
NextStatus == PollOn(RawStatuses, {0}, {0})

SpecStatus == Init /\ [][NextStatus]_vars

\* The energy accounting of a device with one port in use, under every
\* sequence of counter readings, with the port switched off and on.
InitAcct == Init /\ portAccess # "both"

NextAcct == PollOn({"Available"}, 0..MaxKwh, {0}) \/ Switch

SpecAcct == InitAcct /\ [][NextAcct]_vars

\* The commands alone.
NextCmd == Commands

SpecCmd == Init /\ [][NextCmd]_vars

\* The timers, the busy flag and every chain that touches them.
NextLoop == PollOn({"Available"}, {0}, {0}) \/ HourlyOn({"tokenA"})

SpecLoop == Init /\ [][NextLoop]_vars

\* The lock commands of a one-connector device, overlapping one another as
\* the host calls them, and the on/off toggle run on its own.
InitLock == Init /\ portAccess = "port1"

NextLock ==
  \/ lockWrites = <<>> /\ Switch
  \/ cmd.pc = "idle" /\ LockCommands

SpecLock == InitLock /\ [][NextLock]_vars

\* The power estimate under the readings the vendor reports, on a device
\* whose connectors are switched off: its poll cycle is the status stage
\* alone, getChargingInfo skipping its request.
InitPower == InitAcct /\ \A p \in Ports : ~dev.onoff[p]

NextPower ==
  \/ getCAdataLoop
  \/ StatusResponseMeasured({"Charging"}, {MaxKwh}, {0}, PhaseReadings)

SpecPower == InitPower /\ [][NextPower]_vars

\* One charging session on a device whose connectors stay switched on.
InitSession == InitAcct /\ \A p \in Ports : Live(p) => dev.onoff[p]

NextSession ==
  \/ getCAdataLoop
  \/ StatusResponseInSession(0..MaxKwh)
  \/ SessionsResponse1On({0})
  \/ SessionsResponse2On({0})

SpecSession == InitSession /\ [][NextSession]_vars

\* A device instance that was restarted while a charging session was active:
\* onInit has run again, so previousConsumptionKwh is null, while the host
\* kept the meter capability.  lastPoll.kwh and lastPoll.peak hold the session
\* counter that the last accounting update before the restart had covered.
InitRestart ==
  /\ variant \in Variants
  /\ portAccess \in (IF variant = "aura" THEN {"port1", "port2"} ELSE {"port1"})
  /\ \E c \in 0..MaxKwh :
       LET covered == [p \in Ports |-> IF Live(p) THEN c ELSE 0] IN
       /\ dev = [Dev0([p \in Ports |-> Live(p)]) EXCEPT
                   !.meter = [s \in Slots |-> IF s \in Ports /\ Live(s) THEN Some(c) ELSE Null]]
       /\ lastPoll = [Poll0 EXCEPT !.kwh = covered, !.peak = covered]
  /\ vMode = [p \in Ports |-> IF Live(p) THEN "On" ELSE "Off"]
  /\ pollPc = "timer"
  /\ pollTimer = 0
  /\ hourPc = "wait"
  /\ cmd = Cmd0
  /\ statusInFlight = 0
  /\ faults = 0
  /\ obs = Obs0
  /\ credentials = [c \in CredentialNames |-> TRUE]
  /\ chargeAmpsToken = Some("tokenA")
  /\ chargeAmpsRefreshToken = Some("tokenA")
  /\ initPc = "done"
  /\ statusRFID = [p \in Ports |-> Some(FALSE)]
  /\ statusCableLock = [p \in Ports |-> Some(FALSE)]
  /\ lockWrites = <<>>
  /\ vLocks = VLocks0

SpecRestart == InitRestart /\ [][NextSession]_vars

\* The energy accounting of a dual-port device with both ports accessible.
InitBoth == Init /\ portAccess = "both"

NextBoth == PollOn({"Available"}, 0..MaxKwh, {0})

SpecBoth == InitBoth /\ [][NextBoth]_vars

\* The connection events of a single-access device over successive polls.
NextEvents ==
  \/ getCAdataLoop
  \/ StatusResponseRecorded(RawStatuses, {0}, {0})
  \/ SessionsResponse1On({0})
  \/ SessionsResponse2On({0})

SpecEvents == InitAcct /\ [][NextEvents]_vars

\* A dual-port device with access restricted to one port: its poll cycle, its
\* hourly refresh and its commands, the commands taken while neither chain
\* is between a request and its response.
InitRestricted == Init /\ variant = "aura" /\ portAccess # "both"

NextRestricted ==
  \/ cmd.pc = "idle" /\ (PollOn({"Available"}, {0}, {0}) \/ HourlyOn({"tokenA"}))
  \/ pollPc = "timer" /\ hourPc = "wait" /\ Commands

SpecRestricted == InitRestricted /\ [][NextRestricted]_vars

\* The poll loop under every duration of a cycle.
NextTiming == PollOn({"Available"}, {0}, Elapsed)

SpecTiming == Init /\ [][NextTiming]_vars

\* The start of a device: onInit and the chains it starts.
NextBoot ==
  \/ onInit \/ LoginResponseOn({"tokenA"})
  \/ HourlyOn({"tokenA"}) \/ PollOn({"Available"}, {0}, {0})

SpecBoot == InitBoot /\ [][NextBoot]_vars

\* The start of a device and the commands that arrive meanwhile and afterwards.
NextBootCmd == onInit \/ LoginResponseOn({"tokenA"}) \/ Commands

SpecBootCmd == InitBoot /\ [][NextBootCmd]_vars

\* The token renewal and the hourly refresh it starts.
NextRenew == HourlyOn(Tokens)

SpecRenew == Init /\ [][NextRenew]_vars

----------------------------------------------------------------------------
(* Properties *)

Range(q) == {q[i] : i \in 1..Len(q)}

\* An accounting update of port p: the sessions request of getChargingInfo
\* returned rows and the host rejected no publish.
Accounted(p) == obs.kind = "acct" /\ obs.p = p /\ obs.ok /\ ~obs.rejected

\* C1: no step of the device lowers the published meter total of a port
\* (polls with counter readings that never decrease within a session, with the
\* port switched off and on in between).
C1_MeterNeverDecreases ==
  [][\A p \in Ports : Num(dev'.meter[p]) >= Num(dev.meter[p])]_vars

\* C2: an accounting update with nowConsumptionKwh > previousConsumptionKwh,
\* for zero, one or two session rows, leaves the meter total at its value
\* before plus (now - previous) and previousConsumptionKwh at now.
C2_MeterAddsDelta ==
  \A p \in Ports :
    (Accounted(p) /\ obs.now # Null /\ obs.prev # Null /\ Num(obs.now) > Num(obs.prev))
      => /\ Num(dev.meter[p]) = Num(obs.before) + (Num(obs.now) - Num(obs.prev))
         /\ dev.previousConsumptionKwh[p] = obs.now

\* C3: an accounting update with nowConsumptionKwh = 0, for zero, one or two
\* session rows, leaves the meter total unchanged and publishes the live
\* measure as 0.
C3_ZeroKeepsMeter ==
  \A p \in Ports :
    (Accounted(p) /\ obs.now = Some(0))
      => /\ dev.meter[p] = obs.before
         /\ dev.measure[p] = Some(0)

\* A status poll of port p that ran to its end: the status request was
\* answered and the status stage raised no error (no publish was rejected).
Polled(p) == obs.kind = "status" /\ obs.ok /\ ~obs.failed /\ Live(p)

\* C4: for every port of every variant, a status poll that finds the exposed
\* state Charging and the raw status Connected leaves the exposed state
\* Connected, emits chargingCompleted and does not emit chargerConnected.
C4_ChargingCompleted ==
  \A p \in Ports :
    (Polled(p) /\ obs.orig[p] = "Charging" /\ obs.raw[p] = "Connected")
      => /\ dev.CarConnected[p] = "Connected"
         /\ "chargingCompleted" \in Range(obs.ev[p])
         /\ "chargerConnected" \notin Range(obs.ev[p])

\* C5: for every pair (exposed state, raw status) and every port, one status
\* poll emits at most one connection event for that port.
C5_OneEventPerPoll ==
  \A p \in Ports : obs.kind = "status" => Len(obs.ev[p]) <= 1

\* C6: for every port, a status poll with raw status Available and an exposed
\* state of Connected, Charging or Finishing sets the exposed state to
\* Disconnected and emits chargerDisconnected exactly once (and nothing else).
C6_Disconnected ==
  \A p \in Ports :
    (Polled(p) /\ obs.raw[p] = "Available"
       /\ obs.orig[p] \in {"Connected", "Charging", "Finishing"})
      => /\ dev.CarConnected[p] = "Disconnected"
         /\ obs.ev[p] = <<"chargerDisconnected">>

C6_Witness ==
  \E p \in Ports :
    /\ Polled(p) /\ obs.raw[p] = "Available" /\ obs.orig[p] = "Finishing"
    /\ dev.CarConnected[p] = "Disconnected"

\* C7: in every reachable state the exposed car-connection state of every port
\* is never the vendor string Available.
C7_NeverAvailable ==
  \A p \in Ports : dev.CarConnected[p] # "Available"

C7_Witness ==
  \E p \in Ports :
    /\ Polled(p) /\ obs.raw[p] = "Available" /\ obs.orig[p] = "null"
    /\ dev.CarConnected[p] = "Disconnected"

\* C8: a settings command with mode 0 issues the remotestop request before
\* the connector-settings write, and issues the write once the remotestop has
\* returned, whether it succeeded or failed.
C8_StopThenWrite ==
  (cmd.kind # "none" /\ cmd.mode = "0")
    => /\ cmd.stop # "none"
       /\ cmd.write = "issued" => cmd.stop \in {"ok", "failed"}
       /\ cmd.stop \in {"ok", "failed"} => cmd.write = "issued"

C8_Witness == cmd.mode = "0" /\ cmd.stop = "failed" /\ cmd.write = "issued"

\* C9: every command that switches a port off (the toggle set to off, the
\* charger-off flow action) has had its remotestop request answered by the
\* time it writes the off mode.
C9_OffIssuesStop ==
  (cmd.kind \in {"toggle", "card"} /\ ~cmd.value /\ cmd.write = "issued")
    => cmd.stop \in {"ok", "failed"}

\* C10: at most one status request is in flight, and a poll timer that fires
\* while the busy flag is set issues no status request and is re-armed with
\* the short fixed delay.
C10_OneStatusRequest ==
  /\ statusInFlight <= 1
  /\ (obs.kind = "fire" /\ obs.busy)
       => (~obs.issued /\ pollPc = "timer" /\ pollTimer = RetryDelay(variant))

C10_Witness == obs.kind = "fire" /\ obs.busy /\ ~obs.issued /\ statusInFlight = 0

----------------------------------------------------------------------------
(* Start-up and the session *)

\* The requests that carry "Authorization: Bearer <token>" and are awaited.
RequestsInFlight ==
  \/ cmd.pc \in {"stop", "write"}
  \/ pollPc \in {"status", "sess1", "sess2"}
  \/ hourPc \in {"renew", "owned", "light", "outlet", "charger1", "charger2",
                  "sess1", "sess2"}

\* C11: once the initial login has failed, onInit has ended with an error, and
\* from then on no poll timer and no renewal timer is armed and no status
\* request is issued.
C11_FailedLoginStartsNothing ==
  (initPc \notin {"start", "login"} /\ chargeAmpsToken = Null)
    => /\ initPc = "loginFailed"
       /\ pollPc = "off" /\ pollTimer = 0
       /\ hourPc = "off"
       /\ statusInFlight = 0

C11_Witness == initPc = "loginFailed" /\ obs.kind = "login" /\ ~obs.ok

\* C12: a login with any of email, password or API key missing issues no
\* network request: while the login request is in flight the credentials are
\* complete.
C12_NoLoginRequestWithoutCredentials ==
  initPc = "login" => \A c \in CredentialNames : credentials[c]

\* C13: no authenticated request is in flight while the session token is null.
C13_NoRequestWithoutToken == RequestsInFlight => chargeAmpsToken # Null

\* C14: a token renewal that fails leaves the token and the refresh token as
\* they were and raises nothing to renewTokenLoop, which goes on to
\* getHourlyData.
C14_FailedRenewKeepsTokens ==
  [][(obs'.kind = "renew" /\ ~obs'.ok)
       => /\ chargeAmpsToken' = chargeAmpsToken
          /\ chargeAmpsRefreshToken' = chargeAmpsRefreshToken
          /\ hourPc' = "owned"]_vars

C14_Witness ==
  /\ obs.kind = "renew" /\ ~obs.ok
  /\ chargeAmpsToken = Some("tokenB") /\ chargeAmpsRefreshToken = Some("tokenB")

\* C15: in every hourly refresh each stage is entered whatever failed in an
\* earlier stage: no stage ends the chain while a later stage is still to come.
C15_EveryStageEntered == obs.kind = "hour" => ~(obs.aborted /\ obs.more)

\* C16: once the initial login has succeeded, onInit completes and both the
\* poll loop and the renewal timer are started, whatever fails in the first
\* hourly collection.
C16_InitCompletesAfterLogin ==
  (chargeAmpsToken # Null /\ initPc # "hourly")
    => (initPc = "done" /\ pollPc # "off" /\ hourPc # "off")

----------------------------------------------------------------------------
(* The end of a poll cycle *)

\* C17: every poll cycle ends with the busy flag cleared and the next poll
\* timer armed, whether its stages succeed or fail: whenever the chain is back
\* at its timer, isGettingData is false.
C17_CycleEndsWithFlagCleared == pollPc = "timer" => ~dev.isGettingData

----------------------------------------------------------------------------
(* Failed writes *)

C19_FailedWriteRepairedByPoll ==
  (/\ pollPc = "timer" /\ obs.kind \in {"status", "acct"}
   /\ obs.ok /\ ~obs.failed /\ ~obs.rejected
   /\ obs.failedWrite # 0)
    => dev.onoff[obs.failedWrite] = (vMode[obs.failedWrite] = "On")

----------------------------------------------------------------------------
(* The adaptive poll delay *)

\* A poll cycle has just ended normally; obs.e is the time it took.
CycleTimed == pollPc = "timer" /\ obs.kind \in {"status", "acct"} /\ ~obs.aborted

\* Thrice clamp(min, min + 2e/3, max).
Clamp3(min, max, e) ==
  LET x == 3 * min + 2 * e IN
  IF x < 3 * min THEN 3 * min ELSE IF x > 3 * max THEN 3 * max ELSE x

\* C20: the next poll delay is clamp(min, min + 2e/3, max) rounded to the
\* nearest second, so it lies in [min, max]; with min = 14 and max = 60 it is
\* 14 for e = 0, 34 for e = 30 and 60 for e = 200.
C20_DelayIsClamped ==
  CycleTimed =>
    LET min == minTimeout(variant)
        max == maxTimeout(variant)
        c3 == Clamp3(min, max, obs.e) IN
    /\ min <= pollTimer /\ pollTimer <= max
    /\ 2 * (3 * pollTimer - c3) <= 3 /\ 2 * (c3 - 3 * pollTimer) <= 3
    /\ (min = 14 /\ max = 60)
         => /\ obs.e = 0 => pollTimer = 14
            /\ obs.e = 30 => pollTimer = 34
            /\ obs.e = 200 => pollTimer = 60

C20_Witness == CycleTimed /\ variant = "aura" /\ obs.e = 200 /\ pollTimer = 60

----------------------------------------------------------------------------
(* The aggregate of a dual-port device *)

\* C21: with both ports accessible, after every completed accounting pass
\* the aggregate meter is the sum of the two ports' published meters and the
\* aggregate measure the sum of their published measures, also when a port is
\* switched off.  (No request and no publish has failed: faults = 0.)
C21_AggregateIsSum ==
  (portAccess = "both" /\ pollPc = "timer" /\ obs.kind \in {"status", "acct"} /\ faults = 0)
    => /\ Num(dev.meter[0]) = Num(dev.meter[1]) + Num(dev.meter[2])
       /\ Num(dev.measure[0]) = Num(dev.measure[1]) + Num(dev.measure[2])

----------------------------------------------------------------------------
(* Connection events over successive polls *)

\* C22: consecutive answered polls that report the same raw status of a port
\* do not both emit the same event for it.
C22_OneEventPerChange ==
  \A p \in Ports :
    (Live(p) /\ lastPoll.raw[p] # "" /\ lastPoll.raw[p] = lastPoll.rawBefore[p])
      => Range(lastPoll.ev[p]) \cap Range(lastPoll.evBefore[p]) = {}

----------------------------------------------------------------------------
(* Restricted port access *)

\* The dual-port variant with access restricted to one port.
Restricted == variant = "aura" /\ portAccess # "both"

\* C23: on a device whose port access does not include the LED ring, a
\* set-LED-dimmer command issues no network request.
C23_NoLightRequestWhenRestricted ==
  Restricted => /\ cmd.kind # "light"
                /\ obs.kind = "light" => ~obs.issued

C23_Witness == Restricted /\ obs.kind = "light" /\ ~obs.issued /\ cmd.pc = "idle"

\* A request to the settings, remotestop or charging-sessions endpoint of
\* connector p is in flight.
RequestTo(p) ==
  \/ cmd.pc \in {"stop", "write"} /\ cmd.p = p
  \/ pollPc = (IF p = 1 THEN "sess1" ELSE "sess2")
  \/ hourPc \in (IF p = 1 THEN {"charger1", "sess1"} ELSE {"charger2", "sess2"})

C25_SuspendedAndFinishing ==
  \A p \in Ports :
    (Polled(p) /\ obs.orig[p] = "Charging" /\ obs.raw[p] \in {"SuspendedEV", "Finishing"})
      => /\ dev.CarConnected[p] = CompletedStatus(obs.raw[p])
         /\ "chargingCompleted" \in Range(obs.ev[p])

\* C26: for every port of every variant, a status poll whose raw status is
\* none of Available, Connected, Charging and differs from the previous state
\* (other than Charging, which has its own rules) sets the exposed state to
\* the raw status string unchanged and emits no event.
C26_OtherStatusVerbatim ==
  \A p \in Ports :
    (Polled(p) /\ obs.raw[p] \notin {"Available", "Connected", "Charging"}
       /\ obs.orig[p] # obs.raw[p] /\ obs.orig[p] # "Charging")
      => /\ dev.CarConnected[p] = obs.raw[p]
         /\ obs.ev[p] = <<>>

\* C27: for every port of every variant, a status poll with raw status
\* Available and an exposed state of Disconnected or Unknown emits no event
\* and leaves the exposed state unchanged.
C27_AvailableWhenDisconnected ==
  \A p \in Ports :
    (Polled(p) /\ obs.raw[p] = "Available" /\ obs.orig[p] \in {"Disconnected", "Unknown"})
      => /\ obs.ev[p] = <<>>
         /\ dev.CarConnected[p] = obs.orig[p]

\* The stages of the hourly chain: a request of getHourlyData's chain is in flight.
HourStages == {"owned", "light", "outlet", "charger1", "charger2", "sess1", "sess2"}

\* C28: every hourly refresh runs its stages in order and the charging-info
\* stage is its last stage on every variant: a refresh that ends without an
\* escaping error ends in the charging-info stage (entered by the finally of
\* the last charger-info stage, or finished by a sessions response).
C28_ChargingInfoEndsRefresh ==
  [][(hourPc \in HourStages /\ hourPc' = "wait" /\ ~obs'.aborted)
       => hourPc \in {"charger2", "sess1", "sess2"}]_vars

\* C29: in every short poll cycle the accounting stage of each accessible
\* port is entered once the status stage has finished, whether the status
\* request succeeded or failed: when the status stage returns and a port that
\* is accessible and switched on has its sessions still to be requested, a
\* sessions request is issued next, and port 2's follows port 1's.
C29_AccountingFollowsStatus ==
  [][/\ (pollPc = "status" /\ obs'.kind = "status" /\ \E p \in Ports : Live(p) /\ dev.onoff[p])
          => pollPc' \in {"sess1", "sess2"}
     /\ (pollPc = "sess1" /\ obs'.kind = "acct" /\ hourPc' = hourPc /\ Live(2) /\ dev.onoff[2])
          => pollPc' = "sess2"]_vars

\* C30: after a successful login a renewal run is armed, and after every
\* renewal run the next one is armed, whatever the outcome of the token
\* exchange and of the hourly refresh: when the refresh that follows the login
\* ends, and when the refresh of a renewal run ends, the renewal timer is set.
C30_RenewalAlwaysArmed ==
  [][(hourPc \in HourStages /\ hourPc' \notin HourStages) => hourPc' = "wait"]_vars

----------------------------------------------------------------------------
(* The settings writes of the commands *)

\* The values the mode field of a connector-settings write may take; the
\* numbers 0 and 1 are written "0" and "1".
WriteModes == {"On", "Off", "0", "1"}

\* C31: in every connector-settings write issued by any command, after any
\* sequence of earlier commands, the mode field is one of "On", "Off", 0, 1.
C31_ModeOfEveryWrite ==
  /\ (cmd.pc \in {"stop", "write"} /\ cmd.kind \in {"toggle", "card"}) => cmd.mode \in WriteModes
  /\ \A i \in 1..Len(lockWrites) : lockWrites[i].mode \in WriteModes

\* C32: for every inbound command the device's copy of the commanded field
\* equals the commanded value when the handler first suspends to wait for
\* its write: right after a lock command was called, the copy of its field
\* is the value it was called with.
C32_LocalValueSetBeforeAwait ==
  (obs.kind = "lock" /\ lockWrites # <<>>)
    => LET w == lockWrites[Len(lockWrites)] IN LocalLock(w.field, w.p) = Some(w.value)

\* C37: when two commands changing different fields of the same port are
\* both waiting for their writes, the later write (the last one the vendor
\* receives) carries both new values.
C37_LastWriteCarriesBoth ==
  (Len(lockWrites) = 2 /\ lockWrites[1].p = lockWrites[2].p
     /\ lockWrites[1].field # lockWrites[2].field)
    => lockWrites[2][lockWrites[1].field] = Some(lockWrites[1].value)

----------------------------------------------------------------------------
(* The power estimate *)

\* current * voltage of entry i of a measurement list, 0 past its end.
Watts(ms, i) == IF i <= Len(ms) THEN ms[i].current * ms[i].voltage ELSE 0

\* C33: in each status poll of a port whose session counter is not zero, the
\* power estimate becomes the sum of current * voltage over the first three
\* measurement entries divided by 1000, and when the status response carries
\* no measurements the power estimate keeps its previous value.
C33_PowerEstimate ==
  \A p \in Ports :
    (obs.kind = "status" /\ obs.ok /\ Live(p))
      => /\ (~obs.failed /\ lastPoll.meas[p] = "some")
              => dev.chargingConsumptionKwh[p] =
                   Some((Watts(lastPoll.ms[p], 1) + Watts(lastPoll.ms[p], 2)
                         + Watts(lastPoll.ms[p], 3)) \div 1000)
         /\ lastPoll.meas[p] # "some"
              => dev.chargingConsumptionKwh[p] = lastPoll.estBefore[p]

C33_Witness ==
  \E p \in Ports :
    /\ obs.kind = "status" /\ obs.ok /\ ~obs.failed /\ Live(p)
    /\ lastPoll.meas[p] = "some" /\ Len(lastPoll.ms[p]) = 4
    /\ dev.chargingConsumptionKwh[p] = Some(4)

----------------------------------------------------------------------------
(* One charging session *)

\* C34: for a port that stays switched on with no restart, over one charging
\* session in which the counter rises from 0 to F, the meter total rises by
\* exactly F whichever polls fail: the meter never exceeds the highest counter
\* read, and a poll cycle without any failure leaves it equal to that counter.
C34_SessionAddsItsCounter ==
  \A p \in Ports :
    Live(p) =>
      /\ Num(dev.meter[p]) <= lastPoll.peak[p]
      /\ (Accounted(p) /\ ~obs.failed /\ obs.rows = 2 /\ lastPoll.clean /\ ~lastPoll.over)
           => Num(dev.meter[p]) = lastPoll.peak[p]


\* C35: while a short poll cycle is between its status request and its
\* terminal stage, no step of an hourly refresh or renewal run changes the
\* busy flag isGettingData.
C35_HourlyLeavesBusyFlag ==
  [][(hourPc' # hourPc /\ pollPc \in {"status", "sess1", "sess2"})
       => dev'.isGettingData = dev.isGettingData]_vars


\* C36: while the accounting of a port started by a short poll cycle is
\* under way (its getChargingInfo has sent the sessions request of the port
\* and has not finished), no accounting update of the same port started by an
\* hourly refresh takes place: an hourly step leaves previousConsumptionKwh
\* and the published meter of that port alone.
C36_AccountingNotInterleaved ==
  [][\A p \in Ports :
       (/\ pollPc = (IF p = 1 THEN "sess1" ELSE "sess2")
        /\ hourPc = pollPc
        /\ hourPc' # hourPc)
         => /\ dev'.previousConsumptionKwh[p] = dev.previousConsumptionKwh[p]
            /\ dev'.meter[p] = dev.meter[p]]_vars


\* C38: after a restart during an active charging session, the first
\* accounting update of a port (previousConsumptionKwh still null) raises the
\* published meter by no more than the energy consumed since the last update
\* before the restart: the counter now read minus the counter already covered.
C38_RestartAddsOnlyDelta ==
  [][\A p \in Ports :
       (/\ Live(p)
        /\ pollPc = (IF p = 1 THEN "sess1" ELSE "sess2")
        /\ obs'.kind = "acct"
        /\ dev.previousConsumptionKwh[p] = Null
        /\ Num(dev.nowConsumptionKwh[p]) >= lastPoll.kwh[p])
         => Num(dev'.meter[p]) - Num(dev.meter[p])
              <= Num(dev.nowConsumptionKwh[p]) - lastPoll.kwh[p]]_vars

====
